---- MODULE Spec2Model ----
(***************************************************************************)
(* Model of the obsidian-git-backup plugin: the git synchronisation        *)
(* engine (gitSync, gitFetch, gitCommitAll, gitPush), the status-bar       *)
(* refresh (enqueueUpdateStatusBar, updateStatusBar, gitStat) and the      *)
(* numstat parser (parseGitDiffNumstat).                                   *)
(*                                                                         *)
(* The sources hold three revisions of the plugin:                         *)
(*   rev 1  src/main.js lines 1-382      (temporary index, always pushes)  *)
(*   rev 2  src/unnamed/part_000         (status bar, synced settings)     *)
(*   rev 3  src/main.js lines 384-1085   (local settings, exclude file,    *)
(*                                        hourly timer, throwing assert)   *)
(* The variable rev selects the revision that runs.                        *)
(*                                                                         *)
(* Text is a sequence of one-character strings.  Every git invocation is   *)
(* one action that fires when the invocation returns; between two actions  *)
(* of one cycle any other callback may run, as at an await in the code.    *)
(***************************************************************************)
EXTENDS Integers, Sequences, FiniteSets, TLC

\* ------------------------------------------------------------------ bounds

\* Sync cycles started in one behaviour of SpecSync, where no status refresh
\* returns.
MaxCycles == 2

\* Sync cycles started in one behaviour of Spec, beside the status refreshes.
MaxCyclesBeside == 1

\* Edits of the work tree in one behaviour.
MaxEdits == 1

\* Invocations (git, file system) that fail for a reason outside the program
\* (network, permissions, a lock) in one behaviour.
MaxFaults == 1

\* Characters of a text given to parseGitDiffNumstat in SpecParse.
MaxOutLen == 5

\* Lines of an output of git diff --numstat given to parseGitDiffNumstat in
\* SpecParse.
MaxLines == 3

\* ------------------------------------------------------------------- text

TAB == "\t"

NL == "\n"

SP == " "

WhiteSpace == {SP, TAB, NL}

Digits == <<"0", "1", "2", "3", "4", "5", "6", "7", "8", "9">>

IsDigit(c) == \E i \in 1..10 : Digits[i] = c

DigitVal(c) == (CHOOSE i \in 1..10 : Digits[i] = c) - 1

\* A JavaScript number as far as the parser needs it: NaN or an integer.
NaN == [nan |-> TRUE, v |-> 0]

Num(n) == [nan |-> FALSE, v |-> n]

\* a + b of JavaScript numbers: NaN is absorbing.
NumAdd(a, b) == IF a.nan \/ b.nan THEN NaN ELSE Num(a.v + b.v)

RECURSIVE TrimStart(_)
TrimStart(s) ==
  IF s # <<>> /\ Head(s) \in WhiteSpace THEN TrimStart(Tail(s)) ELSE s

RECURSIVE TrimEnd(_)
TrimEnd(s) ==
  IF s # <<>> /\ s[Len(s)] \in WhiteSpace
  THEN TrimEnd(SubSeq(s, 1, Len(s) - 1))
  ELSE s

\* trim as it would be if it removed nothing.
TrimNothing(s) == s

\* String.prototype.trim
Trim(s) == TrimEnd(TrimStart(s))

\* String.prototype.split("\n"): the pieces between line feeds; the empty
\* text gives one empty piece.
RECURSIVE SplitLines(_, _)
SplitLines(s, cur) ==
  IF s = <<>> THEN <<cur>>
  ELSE IF Head(s) = NL THEN <<cur>> \o SplitLines(Tail(s), <<>>)
  ELSE SplitLines(Tail(s), Append(cur, Head(s)))

\* All pieces of String.prototype.split(/\s+/): a run of white space is one
\* separator; white space at either end leaves an empty piece there.
RECURSIVE SplitWS(_, _)
SplitWS(s, cur) ==
  IF s = <<>> THEN <<cur>>
  ELSE IF Head(s) \in WhiteSpace
       THEN <<cur>> \o SplitWS(TrimStart(s), <<>>)
       ELSE SplitWS(Tail(s), Append(cur, Head(s)))

\* line.split(/\s+/, limit): the first limit pieces.
SplitCols(line, limit) ==
  LET all == SplitWS(line, <<>>)
  IN  IF Len(all) > limit THEN SubSeq(all, 1, limit) ELSE all

RECURSIVE DigitsValue(_, _)
DigitsValue(s, acc) ==
  IF s # <<>> /\ IsDigit(Head(s))
  THEN DigitsValue(Tail(s), 10 * acc + DigitVal(Head(s)))
  ELSE acc

\* parseInt as it would be if it read one digit only.
ParseIntOneDigit(s) ==
  LET t    == TrimStart(s)
      neg  == t # <<>> /\ Head(t) = "-"
      sign == t # <<>> /\ Head(t) \in {"-", "+"}
      d    == IF sign THEN Tail(t) ELSE t
  IN  IF d = <<>> \/ ~IsDigit(Head(d)) THEN NaN
      ELSE Num((IF neg THEN -1 ELSE 1) * DigitVal(Head(d)))

\* parseInt(string): leading white space, an optional sign, then decimal
\* digits up to the first other character; NaN when there is no digit.
ParseIntText(s) ==
  LET t    == TrimStart(s)
      neg  == t # <<>> /\ Head(t) = "-"
      sign == t # <<>> /\ Head(t) \in {"-", "+"}
      d    == IF sign THEN Tail(t) ELSE t
  IN  IF d = <<>> \/ ~IsDigit(Head(d)) THEN NaN
      ELSE Num((IF neg THEN -1 ELSE 1) * DigitsValue(d, 0))

\* parseInt(cols[i]) with cols[i] undefined when the line has fewer pieces.
ParseIntCol(cols, i) == IF i > Len(cols) THEN NaN ELSE ParseIntText(cols[i])

ZeroStats == [filesChanged |-> 0, insertions |-> Num(0), deletions |-> Num(0)]

RECURSIVE ParseLines(_, _)
ParseLines(lines, stats) ==
  IF lines = <<>> THEN stats
  ELSE LET line == Head(lines)
           cols == SplitCols(line, 3)
       IN  IF Trim(line) # <<>>
           THEN ParseLines(Tail(lines),
                  [filesChanged |-> stats.filesChanged + 1,
                   insertions   |-> NumAdd(stats.insertions, ParseIntCol(cols, 1)),
                   deletions    |-> NumAdd(stats.deletions, ParseIntCol(cols, 2))])
           ELSE ParseLines(Tail(lines), stats)

parseGitDiffNumstat(out) == ParseLines(SplitLines(Trim(out), <<>>), ZeroStats)

\* No call of parseGitDiffNumstat has returned: no text gives filesChanged -1.
NoStats == [filesChanged |-> -1, insertions |-> NaN, deletions |-> NaN]

\* The texts parseGitDiffNumstat is tried on: every text of at most
\* MaxOutLen characters made of a digit, the marker of a binary file, the
\* white space of the output and a path letter.
NumstatAlphabet == {"1", "-", TAB, NL, SP, "a"}

NumstatTexts == UNION {[1..n -> NumstatAlphabet] : n \in 0..MaxOutLen}

\* A natural number in decimal digits, as git prints a count.
RECURSIVE Decimal(_)
Decimal(n) ==
  IF n < 10 THEN <<Digits[n + 1]>>
  ELSE Decimal(n \div 10) \o <<Digits[(n % 10) + 1]>>

\* The lines of the outputs of git diff --numstat tried: lines of a text
\* file with its counts and its path (one path holds a space), and blank
\* lines (blank TRUE: an empty line or, with path <<SP>>, a space).
NumstatLineChoices ==
  { [blank |-> FALSE, ins |-> 1, del |-> 7, path |-> <<"a">>],
    [blank |-> FALSE, ins |-> 12, del |-> 0, path |-> <<"a", SP, "b">>],
    [blank |-> FALSE, ins |-> 0, del |-> 30, path |-> <<"b">>],
    [blank |-> TRUE, ins |-> 0, del |-> 0, path |-> <<>>],
    [blank |-> TRUE, ins |-> 0, del |-> 0, path |-> <<SP>>] }

NumstatLineSeqs == UNION {[1..n -> NumstatLineChoices] : n \in 0..MaxLines}

\* The text of one line, without its line feed.
RenderLine(l) ==
  IF l.blank THEN l.path
  ELSE Decimal(l.ins) \o <<TAB>> \o Decimal(l.del) \o <<TAB>> \o l.path

\* The text of the lines ls, with a line feed between two lines and, with
\* nl, one after the last.
RECURSIVE RenderLines(_, _)
RenderLines(ls, nl) ==
  IF ls = <<>> THEN <<>>
  ELSE RenderLine(Head(ls))
         \o (IF Len(ls) > 1 \/ nl THEN <<NL>> ELSE <<>>)
         \o RenderLines(Tail(ls), nl)

NumstatOutputs ==
  {RenderLines(ls, nl) : ls \in NumstatLineSeqs, nl \in BOOLEAN}

\* ------------------------------------------------------- git, as invoked

\* The vault's files.  A file's content is its number of lines, every line of
\* a content differing from every line of another: 0 is an absent file.
Files == {"a", "b"}

FileOrder == <<"a", "b">>

Content == 0..2

EmptyTree == [f \in Files |-> 0]

\* The tree of the remote's commit that exists before the plugin runs.
RemoteTree == [f \in Files |-> IF f = "a" THEN 1 ELSE 0]

Numeral(n) == <<Digits[n + 1]>>

\* The exact renames git's rename detection pairs up: a path that went away
\* and a path that appeared with the same content.
RenamePairs(old, new) ==
  {p \in Files \X Files :
     /\ old[p[1]] # 0 /\ new[p[1]] = 0
     /\ old[p[2]] = 0 /\ new[p[2]] = old[p[1]]}

\* One line of git diff --numstat per changed path, in path order; a rename
\* is one line "0 TAB 0 TAB old => new".
RECURSIVE NumstatLines(_, _, _)
NumstatLines(order, old, new) ==
  IF order = <<>> THEN <<>>
  ELSE LET f  == Head(order)
           rp == RenamePairs(old, new)
           rest == NumstatLines(Tail(order), old, new)
       IN  IF \E p \in rp : p[1] = f THEN rest
           ELSE IF \E p \in rp : p[2] = f
                THEN LET p == CHOOSE q \in rp : q[2] = f
                     IN  <<"0", TAB, "0", TAB, p[1], SP, "=", ">", SP, f, NL>> \o rest
           ELSE IF old[f] # new[f]
                THEN Numeral(new[f]) \o <<TAB>> \o Numeral(old[f])
                       \o <<TAB, f, NL>> \o rest
           ELSE rest

\* git add .  : every path of the work tree goes to the index, but for an
\* untracked path that the exclude file names.
GitAdd(idx, work, excl) ==
  [f \in Files |-> IF idx[f] = 0 /\ f \in excl THEN 0 ELSE work[f]]

\* git diff --staged --numstat : the index against HEAD's tree.
GitDiffStaged(headTree, idx) == NumstatLines(FileOrder, headTree, idx)

\* git diff --numstat HEAD : the work tree against HEAD's tree, for the paths
\* of the index; a path that is not in the index counts as absent.
GitDiffHead(headTree, idx, work) ==
  NumstatLines(FileOrder, headTree,
               [f \in Files |-> IF idx[f] = 0 THEN 0 ELSE work[f]])

\* ------------------------------------------------------------------ state

VARIABLES
  rev,                  \* the revision that runs: 1, 2 or 3
  data,                 \* data.json, the persisted synced settings
  localOK,              \* localStorage holds gitBinPath and gitDir (rev 3)
  settings,             \* this.settings
  plugin,               \* "constructed", "loaded" or "unloaded"
  workTree,             \* the vault's files
  edits,                \* edits of the work tree so far
  gitDirExists,         \* the git directory exists
  originURL,            \* remote.origin.url of the git directory's config
  commits,              \* the trees of the commits, oldest first
  head,                 \* HEAD of the git directory: an index into commits
  remoteHead,           \* the remote's branch: an index into commits
  index,                \* the git directory's index file
  exclude,              \* the git directory's info/exclude
  commitEditMsg,        \* the git directory holds COMMIT_EDITMSG
  cycles,               \* the gitSync calls, by number
  nStarted,             \* gitSync calls so far
  faults,               \* failures from outside the program so far
  statusBarItem,        \* this.statusBarItem is not null
  statusBarUpdateLock,  \* this.statusBarUpdateLock
  statInFlight,         \* gitStat invocations of refreshes not yet returned
  enq,                  \* what the latest enqueueUpdateStatusBar call did
  statRead,             \* what the git process of the gitStat in flight has
                        \* computed, NoStats before it has read
  shownStats,           \* the stats updateStatusBar last got from gitStat,
                        \* which the status bar text shows; NoStats if none
  headRef,              \* the branch that HEAD of the git directory points to
  unlinkSettled,        \* how unlink(path) settled in a call of unlinkForce
  unlinkForceResult,    \* "return" or "throw" of that call, "none" before
  platform,             \* process.platform
  environ,              \* os.homedir() and the variables of process.env
  vaultName,            \* this.app.vault.getName()
  localGitDir,          \* gitDir of the settings in localStorage
  settingsGitDir,       \* this.settings.gitDir, "unset" before loadSettings
  configuredGitDir,     \* the gitDir the user configured last
  usedGitDir,           \* the gitDir a gitSync call worked with
  numstatOut,           \* a text given to parseGitDiffNumstat (SpecParse)
  numstatStats          \* what parseGitDiffNumstat returned for it, or NoStats

vars ==
  <<rev, data, localOK, settings, plugin, workTree, edits, gitDirExists,
    originURL, commits, head, remoteHead, index, exclude, commitEditMsg,
    cycles, nStarted, faults, statusBarItem, statusBarUpdateLock,
    statInFlight, enq, statRead, shownStats, headRef, unlinkSettled,
    unlinkForceResult, platform, environ, vaultName, localGitDir,
    settingsGitDir, configuredGitDir, usedGitDir, numstatOut, numstatStats>>

configVars == <<rev, data, localOK, settings, plugin>>

repoVars ==
  <<gitDirExists, originURL, commits, head, remoteHead, index, exclude,
    commitEditMsg>>

refreshVars == <<statusBarUpdateLock, statInFlight, enq>>

parseVars == <<numstatOut, numstatStats>>

statusVars == <<statRead, shownStats>>

branchVars == <<headRef>>

unlinkVars == <<unlinkSettled, unlinkForceResult>>

locatorVars ==
  <<platform, environ, vaultName, localGitDir, settingsGitDir,
    configuredGitDir, usedGitDir>>

localVars == <<unlinkVars, locatorVars>>

Revs == 1..3

\* gitBranchName of the settings: the default.  The remote holds this branch
\* and the branch master, at the same commit before the plugin runs; HEAD of
\* the remote, and so HEAD of its bare clone, points to one of the two.
gitBranchName == "main"

HeadRefs == {"main", "master"}

\* ------------------------------------------------ unlinkForce, git directory

\* How unlink(path) settles: it resolves, or it rejects with a value that is
\* an Error or not and that has a code field or ("none") has none.
UnlinkCodes == {"ENOENT", "EACCES", "EPERM"}

Resolved == [rejected |-> FALSE, isError |-> FALSE, code |-> "none"]

UnlinkSettlements ==
  {Resolved} \cup
  [rejected : {TRUE}, isError : BOOLEAN, code : UnlinkCodes \cup {"none"}]

\* unlinkForce(path): "throw" when the catch block rethrows, else "return".
unlinkForce(u) ==
  IF u.rejected /\ u.isError /\ u.code # "none" /\ u.code # "ENOENT"
  THEN "throw"
  ELSE "return"

\* A path is the sequence of its segments; a file name with an extension is
\* two elements, the name and the extension.  <<>> is the empty string.
NoDir == <<>>

\* In the place of a path: the getter or the function threw.
Thrown == <<"Error">>

PathJoin(a, b) == IF a = Thrown \/ b = Thrown THEN Thrown ELSE a \o b

Platforms == {"darwin", "linux", "win32", "freebsd"}

Environs ==
  [HOME : {<<>>, <<"home", "u">>},
   XDG_CACHE_HOME : {<<>>, <<"xdg">>},
   LOCALAPPDATA : {<<>>, <<"AppData", "Local">>}]

VaultNames == {"", "v", "w"}

GitDirSettings == {<<>>, <<"custom">>, <<"rel", "dir">>}

\* getCacheDir()
getCacheDir ==
  LET home == environ.HOME
  IN  IF home = <<>> THEN Thrown
      ELSE IF platform = "darwin"
      THEN PathJoin(home, <<"Library", "Caches", "obsidian-git-backup">>)
      ELSE IF platform = "linux"
      THEN LET cacheHome == IF environ.XDG_CACHE_HOME # <<>>
                            THEN environ.XDG_CACHE_HOME
                            ELSE PathJoin(home, <<".cache">>)
           IN  PathJoin(cacheHome, <<"obsidian-git-backup">>)
      ELSE IF platform = "win32"
      THEN IF environ.LOCALAPPDATA = <<>> THEN Thrown
           ELSE PathJoin(environ.LOCALAPPDATA, <<"obsidian-git-backup", "Cache">>)
      ELSE Thrown

\* get defaultGitDir()
defaultGitDir ==
  IF vaultName = "" THEN Thrown
  ELSE PathJoin(getCacheDir, <<vaultName, ".git">>)

\* loadSettings as it would be if it always took the default directory.
LoadedGitDirDefault == defaultGitDir

\* loadSettings: the gitDir of this.settings, from localStorage or, when
\* that one is empty, the default.
LoadedGitDir ==
  IF localGitDir = <<>> THEN defaultGitDir ELSE localGitDir

\* The values of the variables of unlinkForce and of the git directory in
\* the specifications that do not move them.
LocalIdle ==
  /\ unlinkSettled = Resolved
  /\ unlinkForceResult = "none"
  /\ platform = "linux"
  /\ environ = [HOME |-> <<"home", "u">>, XDG_CACHE_HOME |-> <<>>,
                LOCALAPPDATA |-> <<>>]
  /\ vaultName = "v"
  /\ localGitDir = <<>>
  /\ settingsGitDir = <<>>
  /\ configuredGitDir = <<>>
  /\ usedGitDir = NoDir

\* The gitIgnore texts tried: no pattern, or a pattern that matches file b.
IgnoreSets == {{}, {"b"}}

\* The work trees a behaviour starts from: the remote's tree, and that tree
\* with its file renamed.  An edit reaches the others.
InitWorkTrees ==
  {RemoteTree, [f \in Files |-> IF f = "a" THEN 0 ELSE 1]}

DEFAULT_SETTINGS == [gitRemoteURL |-> "", gitIgnore |-> {}]

\* A gitSync call: where it stands (pc: the invocation it awaits), who
\* called it, what gitCommitAll is about to return (outcome, err) and what
\* gitSync returned (result, err).  The other fields record its history:
\* HEAD when it started, the filesChanged of its staged diff (-1 until the
\* diff has returned), the commit it created, whether an invocation of it failed from outside, whether another
\* cycle ran beside it, whether the work tree was edited since it started.
\* tmpIndex and indexFile are rev 1's temporary index: its content, and
\* whether the file exists.  sha is what git rev-parse HEAD printed: "sha40"
\* for an identifier of 40 characters, "other" for another length.  n is the
\* N of the message "Pushed N files" the cycle returned.
IdleCycle ==
  [pc |-> "idle", origin |-> "none", headAtStart |-> 0, filesChanged |-> -1,
   outcome |-> "none", err |-> "none", result |-> "none", fault |-> FALSE,
   overlapped |-> FALSE, edited |-> FALSE, tmpIndex |-> EmptyTree,
   indexFile |-> FALSE, committed |-> 0, sha |-> "none", n |-> 0]

CycleIds == 1..MaxCycles

Running(c) == c.pc \notin {"idle", "done"}

HeadTree == commits[head]

InitAnyBranch ==
  /\ rev \in Revs
  /\ data \in [gitRemoteURL : {"", "u1"}, gitIgnore : IgnoreSets]
  /\ rev < 3 => data.gitIgnore = {}
  /\ localOK \in BOOLEAN
  /\ rev < 3 => localOK
  /\ settings = DEFAULT_SETTINGS
  /\ plugin = "constructed"
  /\ workTree \in InitWorkTrees
  /\ edits = 0
  /\ gitDirExists \in BOOLEAN
  /\ originURL \in (IF gitDirExists THEN {"u1", "u2"} ELSE {""})
  /\ commits = <<RemoteTree>>
  /\ head = (IF gitDirExists THEN 1 ELSE 0)
  /\ remoteHead = 1
  /\ index = (IF gitDirExists THEN RemoteTree ELSE EmptyTree)
  /\ exclude = {}
  /\ commitEditMsg = FALSE
  /\ cycles = [i \in CycleIds |-> IdleCycle]
  /\ nStarted = 0
  /\ faults = 0
  /\ statusBarItem = FALSE
  /\ statusBarUpdateLock = FALSE
  /\ statInFlight = 0
  /\ enq = [inFlight |-> FALSE, did |-> "none"]
  /\ statRead = NoStats
  /\ shownStats = NoStats
  /\ LocalIdle
  /\ headRef \in HeadRefs
  /\ numstatOut = <<>>
  /\ numstatStats = NoStats

\* The states the plugin starts from in Spec and SpecSync: HEAD points to the
\* configured branch.
Init == InitAnyBranch /\ headRef = gitBranchName

\* --------------------------------------------------------- status refresh

\* updateStatusBar up to its first await: TRUE when it goes on to invoke
\* gitStat.  item is this.statusBarItem at the call; the git binary and, in
\* rev 3, the gitDir setting are set whenever onload registered a caller.
UpdateStatusBarStarts(item) == item

\* enqueueUpdateStatusBar, with the settling of a refresh that returns before
\* its first await: its finally handler runs before any other callback.
EnqueueUpdateStatusBar(lock, item) ==
  IF lock
  THEN /\ enq' = [inFlight |-> statInFlight > 0, did |-> "skipped"]
       /\ statusBarUpdateLock' = lock
       /\ statInFlight' = statInFlight
  ELSE IF UpdateStatusBarStarts(item)
  THEN /\ statusBarUpdateLock' = TRUE
       /\ statInFlight' = statInFlight + 1
       /\ enq' = [inFlight |-> statInFlight > 0, did |-> "gitStat"]
  ELSE /\ statusBarUpdateLock' = FALSE
       /\ statInFlight' = statInFlight
       /\ enq' = [inFlight |-> statInFlight > 0, did |-> "returned"]

\* loadSettings.  rev 3 calls saveSettings when localStorage lacks gitBinPath
\* or gitDir, before this.settings is assigned: it writes the settings the
\* instance was constructed with.  What is left in data.json is then loaded.
LoadedData ==
  IF rev = 3 /\ ~localOK THEN DEFAULT_SETTINGS ELSE data

\* onload: load the settings, build the status bar item, request a refresh
\* and register the callers (vault events, timers, the Backup command).
OnLoad ==
  /\ plugin = "constructed"
  /\ plugin' = "loaded"
  /\ data' = LoadedData
  /\ settings' = (IF rev = 1 THEN settings ELSE LoadedData)
  /\ IF rev = 1
     THEN UNCHANGED <<statusBarItem, refreshVars>>
     ELSE /\ statusBarItem' = TRUE
          /\ EnqueueUpdateStatusBar(statusBarUpdateLock, TRUE)
  /\ UNCHANGED <<parseVars, branchVars, localVars, statusVars, rev, localOK, workTree, edits, repoVars, cycles, nStarted, faults>>

\* unload: drop the status bar item and release the lock.
Unload ==
  /\ plugin = "loaded"
  /\ plugin' = "unloaded"
  /\ IF rev = 1
     THEN UNCHANGED <<statusBarItem, statusBarUpdateLock>>
     ELSE /\ statusBarItem' = FALSE
          /\ statusBarUpdateLock' = FALSE
  /\ UNCHANGED <<parseVars, branchVars, localVars, statusVars, rev, data, localOK, settings, workTree, edits, repoVars,
                 cycles, nStarted, faults, statInFlight, enq>>

\* The user creates, modifies or deletes a file of the vault.
EditWorkTree ==
  /\ plugin # "constructed"
  /\ edits < MaxEdits
  /\ \E f \in Files, c \in Content :
       /\ workTree[f] # c
       /\ workTree' = [workTree EXCEPT ![f] = c]
  /\ edits' = edits + 1
  /\ cycles' = [i \in CycleIds |->
                  IF cycles[i].pc = "idle" THEN cycles[i]
                  ELSE [cycles[i] EXCEPT !.edited = TRUE]]
  /\ UNCHANGED <<parseVars, branchVars, localVars, statusVars, configVars, repoVars, nStarted, faults, statusBarItem,
                 refreshVars>>

\* A vault event or the five-minute timer calls enqueueUpdateStatusBar.
RefreshRequest ==
  /\ plugin = "loaded"
  /\ rev >= 2
  /\ EnqueueUpdateStatusBar(statusBarUpdateLock, statusBarItem)
  /\ UNCHANGED <<parseVars, branchVars, localVars, statusVars, configVars, workTree, edits, repoVars, cycles, nStarted,
                 faults, statusBarItem>>

\* The outcomes of an invocation: "fail" when it must fail, else "ok" or,
\* while the behaviour may still take one, a failure from outside.  Fault
\* counts what comes from outside: a failure, or (git rev-parse) an output
\* of another shape than expected.
Res(mustFail) ==
  IF mustFail THEN {"fail"}
  ELSE {"ok"} \cup (IF faults < MaxFaults THEN {"fault"} ELSE {})

Fault(o) == IF o \in {"fault", "other"} THEN 1 ELSE 0

\* gitStat: git diff --numstat HEAD, parsed.
gitStat == parseGitDiffNumstat(GitDiffHead(HeadTree, index, workTree))

\* The git process of the gitStat in flight reads HEAD, the index and the
\* work tree and computes its output.
GitStatRun ==
  /\ statInFlight > 0
  /\ statRead = NoStats
  /\ gitDirExists
  /\ statRead' = gitStat
  /\ UNCHANGED <<parseVars, branchVars, localVars, shownStats, configVars, workTree, edits, repoVars,
                 cycles, nStarted, faults, statusBarItem, refreshVars>>

\* The outcomes of the gitStat in flight: its output once the process has
\* read, a failure when there is no git directory to read, or a failure from
\* outside.
StatRes ==
  (IF statRead # NoStats THEN {"ok"}
   ELSE IF ~gitDirExists THEN {"fail"} ELSE {})
  \cup (IF faults < MaxFaults THEN {"fault"} ELSE {})

\* gitStat as it would be if it staged the work tree before the diff.
GitStatReturnStaging ==
  /\ statInFlight > 0
  /\ \E o \in StatRes :
       /\ faults' = faults + Fault(o)
       /\ index' = (IF o = "ok" THEN GitAdd(index, workTree, exclude) ELSE index)
       /\ shownStats' = (IF o = "ok" THEN statRead ELSE shownStats)
  /\ statRead' = NoStats
  /\ statInFlight' = statInFlight - 1
  /\ statusBarUpdateLock' = FALSE
  /\ UNCHANGED <<parseVars, branchVars, localVars, configVars, workTree, edits, gitDirExists, originURL, commits,
                 head, remoteHead, exclude, commitEditMsg, cycles, nStarted,
                 statusBarItem, enq>>

\* The return of gitStat as it would be if enqueueUpdateStatusBar had no
\* finally handler: the lock stays as it is.
GitStatReturnHoldingLock ==
  /\ statInFlight > 0
  /\ \E o \in StatRes :
       /\ faults' = faults + Fault(o)
       /\ shownStats' = (IF o = "ok" THEN statRead ELSE shownStats)
  /\ statRead' = NoStats
  /\ statInFlight' = statInFlight - 1
  /\ statusBarUpdateLock' = statusBarUpdateLock
  /\ UNCHANGED <<parseVars, branchVars, localVars, configVars, workTree, edits, repoVars, cycles, nStarted,
                 statusBarItem, enq>>

\* The gitStat invocation of a refresh returns: updateStatusBar sets the
\* text from the stats, or the error is logged; the finally handler releases
\* the lock.
GitStatReturn ==
  /\ statInFlight > 0
  /\ \E o \in StatRes :
       /\ faults' = faults + Fault(o)
       /\ shownStats' = (IF o = "ok" THEN statRead ELSE shownStats)
  /\ statRead' = NoStats
  /\ statInFlight' = statInFlight - 1
  /\ statusBarUpdateLock' = FALSE
  /\ UNCHANGED <<parseVars, branchVars, localVars, configVars, workTree, edits, repoVars, cycles, nStarted,
                 statusBarItem, enq>>

\* -------------------------------------------------------------- gitSync

\* assert(value, message): rev 3 throws; revs 1 and 2 only log.
AssertThrows == rev = 3

\* The remote URL and the ignore patterns gitSync works with: rev 1 loads
\* data.json in every call, revs 2 and 3 read this.settings.
gitRemoteURL == IF rev = 1 THEN data.gitRemoteURL ELSE settings.gitRemoteURL

gitIgnore == settings.gitIgnore

Invoke(c, cmd) == [c EXCEPT !.pc = cmd]

Faulted(c, o) == [c EXCEPT !.fault = @ \/ (o = "fault")]

\* The promise of gitSync settles: the cycle is over.  The Backup command's
\* finally handler (revs 2 and 3) then calls enqueueUpdateStatusBar.
Settle(i, c, result, err) ==
  /\ cycles' = [cycles EXCEPT ![i] =
                  [c EXCEPT !.pc = "done", !.result = result, !.err = err,
                            !.outcome = "none", !.tmpIndex = EmptyTree]]
  /\ IF c.origin = "command" /\ rev >= 2
     THEN EnqueueUpdateStatusBar(statusBarUpdateLock, statusBarItem)
     ELSE UNCHANGED refreshVars

Continue(i, c) ==
  /\ cycles' = [cycles EXCEPT ![i] = c]
  /\ UNCHANGED refreshVars

\* gitCommitAll as it would be if it staged without resetting the index.
BeginCommitAllNoReset(c) == Invoke(c, "add")

\* gitCommitAll up to its first await.
BeginCommitAll(c) ==
  IF rev = 3 THEN Invoke(c, "writeExclude")
  ELSE IF rev = 2 THEN Invoke(c, "reset")
  ELSE Invoke(c, "add")

\* A step of gitCommitAll's try block threw: the finally block runs.
Cleanup(c, err) == Invoke([c EXCEPT !.outcome = "throw", !.err = err], "unlink")

\* gitSync as it would be if it pushed whatever gitCommitAll returned.
AfterCommitAllAlwaysPush(i, c) ==
  IF c.outcome = "throw" THEN Settle(i, c, "error", c.err)
  ELSE Continue(i, Invoke(c, "push"))

\* gitCommitAll has settled with c.outcome; gitSync goes on.
AfterCommitAll(i, c) ==
  IF c.outcome = "throw" THEN Settle(i, c, "error", c.err)
  ELSE IF rev = 1 \/ c.outcome = "commit" THEN Continue(i, Invoke(c, "push"))
  ELSE Settle(i, c, "No changes", "none")

\* gitSync is called by the Backup command or (rev 3) by the hourly timer.
StartSync(origin, max) ==
  /\ plugin = "loaded"
  /\ nStarted < max
  /\ origin = "timer" => rev = 3
  /\ LET i   == nStarted + 1
         url == gitRemoteURL
         others == \E j \in CycleIds : Running(cycles[j])
         c   == [IdleCycle EXCEPT
                   !.origin = origin, !.headAtStart = head, !.overlapped = others]
         marked == [j \in CycleIds |->
                      IF Running(cycles[j])
                      THEN [cycles[j] EXCEPT !.overlapped = TRUE]
                      ELSE cycles[j]]
     IN  /\ nStarted' = i
         /\ IF AssertThrows /\ url = ""
            THEN /\ cycles' = [marked EXCEPT ![i] =
                                 [c EXCEPT !.pc = "done", !.result = "error",
                                           !.err = "assert"]]
                 /\ IF origin = "command"
                    THEN EnqueueUpdateStatusBar(statusBarUpdateLock, statusBarItem)
                    ELSE UNCHANGED refreshVars
            ELSE /\ cycles' = [marked EXCEPT ![i] = [c EXCEPT !.pc = "exists"]]
                 /\ UNCHANGED refreshVars
  /\ UNCHANGED <<parseVars, branchVars, localVars, statusVars, configVars, workTree, edits, repoVars, faults, statusBarItem>>

\* gitFetch: exists(gitDir) returns.
ExistsReturn(i) ==
  LET c == cycles[i]
  IN  /\ c.pc = "exists"
      /\ Continue(i, Invoke(c, IF gitDirExists THEN "config" ELSE "clone"))
      /\ UNCHANGED <<parseVars, branchVars, localVars, statusVars, configVars, workTree, edits, repoVars, nStarted, faults,
                     statusBarItem>>

\* gitFetch: git config --local remote.origin.url returns; the URL is
\* compared and git fetch origin is invoked.
ConfigReturn(i) ==
  LET c == cycles[i]
  IN  /\ c.pc = "config"
      /\ \E o \in Res(FALSE) :
           /\ faults' = faults + Fault(o)
           /\ IF o # "ok" THEN Settle(i, Faulted(c, o), "error", "fetch")
              ELSE IF AssertThrows /\ originURL # gitRemoteURL
              THEN Settle(i, c, "error", "assert")
              ELSE Continue(i, Invoke(c, "fetch"))
      /\ UNCHANGED <<parseVars, branchVars, localVars, statusVars, configVars, workTree, edits, repoVars, nStarted,
                     statusBarItem>>

\* gitFetch: git fetch origin returns.  The git directory is a bare clone
\* with no fetch refspec: the fetch writes FETCH_HEAD and moves no ref.
FetchReturn(i) ==
  LET c == cycles[i]
  IN  /\ c.pc = "fetch"
      /\ \E o \in Res(FALSE) :
           /\ faults' = faults + Fault(o)
           /\ IF o # "ok" THEN Settle(i, Faulted(c, o), "error", "fetch")
              ELSE Continue(i, BeginCommitAll(c))
      /\ UNCHANGED <<parseVars, branchVars, localVars, statusVars, configVars, workTree, edits, repoVars, nStarted,
                     statusBarItem>>

\* gitFetch: git clone --bare url gitDir returns.
CloneReturn(i) ==
  LET c == cycles[i]
  IN  /\ c.pc = "clone"
      /\ \E o \in Res(gitDirExists \/ gitRemoteURL = "") :
           /\ faults' = faults + Fault(o)
           /\ IF o # "ok"
              THEN /\ Settle(i, Faulted(c, o), "error", "fetch")
                   /\ UNCHANGED repoVars
              ELSE /\ Continue(i, BeginCommitAll(c))
                   /\ gitDirExists' = TRUE
                   /\ originURL' = gitRemoteURL
                   /\ head' = remoteHead
                   /\ index' = EmptyTree
                   /\ exclude' = {}
                   /\ UNCHANGED <<commits, remoteHead, commitEditMsg>>
      /\ UNCHANGED <<parseVars, branchVars, localVars, statusVars, configVars, workTree, edits, nStarted, statusBarItem>>

\* ---------------------------------------------------------- gitCommitAll

\* The index file the cycle's git invocations use: rev 1 gives every cycle a
\* temporary one of its own (GIT_INDEX_FILE).
IndexOf(c) == IF rev = 1 THEN c.tmpIndex ELSE index

\* The invocation wrote idx to the cycle's index file.
WithIndex(i, c, idx) ==
  IF rev = 1
  THEN /\ Continue(i, [c EXCEPT !.tmpIndex = idx, !.indexFile = TRUE])
       /\ UNCHANGED index
  ELSE /\ Continue(i, c)
       /\ index' = idx

\* writeFile(info/exclude, gitIgnore) returns (rev 3).
WriteExcludeReturn(i) ==
  LET c == cycles[i]
  IN  /\ c.pc = "writeExclude"
      /\ \E o \in Res(FALSE) :
           /\ faults' = faults + Fault(o)
           /\ IF o # "ok"
              THEN /\ Continue(i, Cleanup(Faulted(c, o), "exec"))
                   /\ UNCHANGED exclude
              ELSE /\ Continue(i, Invoke(c, "reset"))
                   /\ exclude' = gitIgnore
      /\ UNCHANGED <<parseVars, branchVars, localVars, statusVars, configVars, workTree, edits, gitDirExists, originURL,
                     commits, head, remoteHead, index, commitEditMsg, nStarted,
                     statusBarItem>>

\* git reset --mixed HEAD returns (revs 2 and 3): the index is HEAD's tree.
ResetReturn(i) ==
  LET c == cycles[i]
  IN  /\ c.pc = "reset"
      /\ \E o \in Res(FALSE) :
           /\ faults' = faults + Fault(o)
           /\ IF o # "ok"
              THEN /\ Continue(i, Cleanup(Faulted(c, o), "exec"))
                   /\ UNCHANGED index
              ELSE /\ Continue(i, Invoke(c, IF rev = 3 THEN "rm" ELSE "add"))
                   /\ index' = HeadTree
      /\ UNCHANGED <<parseVars, branchVars, localVars, statusVars, configVars, workTree, edits, gitDirExists, originURL,
                     commits, head, remoteHead, exclude, commitEditMsg,
                     nStarted, statusBarItem>>

\* git rm -r --cached . returns (rev 3): the index is empty.  On an index
\* that is already empty git ends with "pathspec '.' did not match any files".
RmCachedReturn(i) ==
  LET c == cycles[i]
  IN  /\ c.pc = "rm"
      /\ \E o \in Res(index = EmptyTree) :
           /\ faults' = faults + Fault(o)
           /\ IF o # "ok"
              THEN /\ Continue(i, Cleanup(Faulted(c, o), "exec"))
                   /\ UNCHANGED index
              ELSE /\ Continue(i, Invoke(c, "add"))
                   /\ index' = EmptyTree
      /\ UNCHANGED <<parseVars, branchVars, localVars, statusVars, configVars, workTree, edits, gitDirExists, originURL,
                     commits, head, remoteHead, exclude, commitEditMsg,
                     nStarted, statusBarItem>>

\* git add . returns: the work tree is staged.
AddReturn(i) ==
  LET c == cycles[i]
  IN  /\ c.pc = "add"
      /\ \E o \in Res(FALSE) :
           /\ faults' = faults + Fault(o)
           /\ IF o # "ok"
              THEN /\ Continue(i, Cleanup(Faulted(c, o), "exec"))
                   /\ UNCHANGED index
              ELSE WithIndex(i, Invoke(c, "diff"),
                             GitAdd(IndexOf(c), workTree, exclude))
      /\ UNCHANGED <<parseVars, branchVars, localVars, statusVars, configVars, workTree, edits, gitDirExists, originURL,
                     commits, head, remoteHead, exclude, commitEditMsg,
                     nStarted, statusBarItem>>

\* The no-changes test as it would be if it looked at the changed lines.
HasChangesByLines(stats) == stats.insertions.v + stats.deletions.v > 0

\* if (stats.filesChanged > 0): the test that decides between a commit and
\* "no changes" in revs 2 and 3.
HasChanges(stats) == stats.filesChanged > 0

\* The staged diff returns.  Revs 2 and 3 parse git diff --staged --numstat
\* and commit when filesChanged > 0.  Rev 1 runs git diff --staged --quiet
\* and commits when it ends non-zero, whatever the reason.
DiffReturn(i) ==
  LET c     == cycles[i]
      stats == parseGitDiffNumstat(GitDiffStaged(HeadTree, IndexOf(c)))
      d     == [c EXCEPT !.filesChanged = stats.filesChanged]
  IN  /\ c.pc = "diff"
      /\ \E o \in Res(FALSE) :
           /\ faults' = faults + Fault(o)
           /\ IF rev = 1
              THEN IF o # "ok"
                   THEN Continue(i, Invoke(Faulted(c, o), "commit"))
                   ELSE IF IndexOf(c) # HeadTree
                   THEN Continue(i, Invoke(d, "commit"))
                   ELSE Continue(i, Invoke([d EXCEPT !.outcome = "null"], "unlink"))
              ELSE IF o # "ok"
                   THEN Continue(i, Cleanup(Faulted(c, o), "exec"))
                   ELSE IF HasChanges(stats)
                   THEN Continue(i, Invoke(d, "commit"))
                   ELSE Continue(i, Invoke([d EXCEPT !.outcome = "null"], "unlink"))
      /\ UNCHANGED <<parseVars, branchVars, localVars, statusVars, configVars, workTree, edits, repoVars, nStarted,
                     statusBarItem>>

\* git commit as it would be if a failing commit had moved HEAD all the same.
CommitReturnMovingHead(i) ==
  LET c == cycles[i]
  IN  /\ c.pc = "commit"
      /\ \E o \in Res(IndexOf(c) = HeadTree) :
           /\ faults' = faults + Fault(o)
           /\ IF o = "ok"
              THEN Continue(i, Invoke([c EXCEPT !.committed = Len(commits) + 1],
                                      "revparse"))
              ELSE Continue(i, Cleanup(Faulted(c, o), "exec"))
           /\ commits' = Append(commits, IndexOf(c))
           /\ head' = Len(commits) + 1
           /\ commitEditMsg' = TRUE
      /\ UNCHANGED <<parseVars, branchVars, localVars, statusVars, configVars, workTree, edits, gitDirExists, originURL,
                     remoteHead, index, exclude, nStarted, statusBarItem>>

\* git commit --message returns: a commit of the index on top of HEAD, and
\* COMMIT_EDITMSG in the git directory.  With an index equal to HEAD's tree
\* git ends non-zero ("nothing to commit").
CommitReturn(i) ==
  LET c == cycles[i]
  IN  /\ c.pc = "commit"
      /\ \E o \in Res(IndexOf(c) = HeadTree) :
           /\ faults' = faults + Fault(o)
           /\ IF o # "ok"
              THEN /\ Continue(i, Cleanup(Faulted(c, o), "exec"))
                   /\ UNCHANGED <<commits, head, commitEditMsg>>
              ELSE /\ Continue(i, Invoke([c EXCEPT !.committed = Len(commits) + 1],
                                         "revparse"))
                   /\ commits' = Append(commits, IndexOf(c))
                   /\ head' = Len(commits) + 1
                   /\ commitEditMsg' = TRUE
      /\ UNCHANGED <<parseVars, branchVars, localVars, statusVars, configVars, workTree, edits, gitDirExists, originURL,
                     remoteHead, index, exclude, nStarted, statusBarItem>>

\* git rev-parse HEAD returns: gitCommitAll returns the commit.  The length
\* of the identifier is tested with console.assert (revs 2 and 3), which
\* logs and goes on.
RevParseReturn(i) ==
  LET c == cycles[i]
  IN  /\ c.pc = "revparse"
      /\ \E o \in Res(FALSE) \cup (IF faults < MaxFaults THEN {"other"} ELSE {}) :
           /\ faults' = faults + Fault(o)
           /\ IF o \in {"fault", "fail"}
              THEN Continue(i, Cleanup(Faulted(c, o), "exec"))
              ELSE Continue(i, Invoke([c EXCEPT !.outcome = "commit",
                                               !.sha = IF o = "ok" THEN "sha40"
                                                       ELSE "other"],
                                      "unlink"))
      /\ UNCHANGED <<parseVars, branchVars, localVars, statusVars, configVars, workTree, edits, repoVars, nStarted,
                     statusBarItem>>

\* unlinkForce(COMMIT_EDITMSG) of the finally block returns.  A missing file
\* is not an error; another failure is thrown out of the finally block and
\* becomes the outcome of gitCommitAll.
UnlinkReturn(i) ==
  LET c == cycles[i]
  IN  /\ c.pc = "unlink"
      /\ \E o \in Res(FALSE) :
           /\ faults' = faults + Fault(o)
           /\ IF o # "ok"
              THEN /\ Settle(i, Faulted(c, o), "error", "unlink")
                   /\ UNCHANGED commitEditMsg
              ELSE /\ commitEditMsg' = FALSE
                   /\ IF rev = 1 THEN Continue(i, Invoke(c, "unlinkIndex"))
                      ELSE AfterCommitAll(i, c)
      /\ UNCHANGED <<parseVars, branchVars, localVars, statusVars, configVars, workTree, edits, gitDirExists, originURL,
                     commits, head, remoteHead, index, exclude, nStarted,
                     statusBarItem>>

\* unlinkForce(indexFile) of the finally block returns (rev 1).
UnlinkIndexReturn(i) ==
  LET c == cycles[i]
  IN  /\ c.pc = "unlinkIndex"
      /\ \E o \in Res(FALSE) :
           /\ faults' = faults + Fault(o)
           /\ IF o # "ok"
              THEN Settle(i, Faulted(c, o), "error", "unlinkIndex")
              ELSE AfterCommitAll(i, [c EXCEPT !.tmpIndex = EmptyTree,
                                               !.indexFile = FALSE])
      /\ UNCHANGED <<parseVars, branchVars, localVars, statusVars, configVars, workTree, edits, repoVars, nStarted,
                     statusBarItem>>

\* The remote's branch gitBranchName after git push origin <gitBranchName>
\* has succeeded: the push sends the local branch of that name, which is
\* where the commits go only when HEAD points to it; otherwise the local
\* branch is where the clone left it and there is nothing to send.  (The
\* remote of the model is the one at URL u1.)
RemoteAfterPush ==
  IF originURL = "u1" /\ headRef = gitBranchName THEN head ELSE remoteHead

\* gitPush: git push origin <branch> returns; gitSync returns its message
\* `Pushed ${commit.filesChanged} files`, the count being the one of the
\* staged diff that gitCommitAll returned with the commit (rev 1 returns
\* nothing).
PushReturn(i) ==
  LET c == cycles[i]
  IN  /\ c.pc = "push"
      /\ \E o \in Res(FALSE) :
           /\ faults' = faults + Fault(o)
           /\ IF o # "ok"
              THEN /\ Settle(i, Faulted(c, o), "error", "push")
                   /\ UNCHANGED remoteHead
              ELSE /\ Settle(i, [c EXCEPT !.n = IF rev = 1 THEN 0 ELSE c.filesChanged],
                          IF rev = 1 THEN "undefined" ELSE "Pushed", "none")
                   /\ remoteHead' = RemoteAfterPush
      /\ UNCHANGED <<parseVars, branchVars, localVars, statusVars, configVars, workTree, edits, gitDirExists, originURL,
                     commits, head, index, exclude, commitEditMsg, nStarted,
                     statusBarItem>>

\* ------------------------------------------------------------ specification

\* The sync engine alone: the callers of gitSync and the returns of its
\* invocations.  The refresh that onload requests stays in flight.
SyncNext(max) ==
  \/ \E origin \in {"command", "timer"} : StartSync(origin, max)
  \/ \E i \in CycleIds : ExistsReturn(i)
  \/ \E i \in CycleIds : ConfigReturn(i)
  \/ \E i \in CycleIds : FetchReturn(i)
  \/ \E i \in CycleIds : CloneReturn(i)
  \/ \E i \in CycleIds : WriteExcludeReturn(i)
  \/ \E i \in CycleIds : ResetReturn(i)
  \/ \E i \in CycleIds : RmCachedReturn(i)
  \/ \E i \in CycleIds : AddReturn(i)
  \/ \E i \in CycleIds : DiffReturn(i)
  \/ \E i \in CycleIds : CommitReturn(i)
  \/ \E i \in CycleIds : RevParseReturn(i)
  \/ \E i \in CycleIds : UnlinkReturn(i)
  \/ \E i \in CycleIds : UnlinkIndexReturn(i)
  \/ \E i \in CycleIds : PushReturn(i)

NextSync ==
  \/ OnLoad
  \/ EditWorkTree
  \/ SyncNext(MaxCycles)

\* Every caller and every return: the plugin as a whole.
Next ==
  \/ OnLoad
  \/ Unload
  \/ EditWorkTree
  \/ RefreshRequest
  \/ GitStatRun
  \/ GitStatReturn
  \/ SyncNext(MaxCyclesBeside)

\* The whole plugin, with MaxCyclesBeside sync cycles.
Spec == Init /\ [][Next]_vars

\* The sync engine, with MaxCycles sync cycles that may overlap.  No action
\* of a refresh writes a variable that a sync cycle reads, so what holds of
\* the cycles here holds of them beside refreshes.
SpecSync == Init /\ [][NextSync]_vars

\* One sync cycle, from every state of InitAnyBranch: HEAD may point to
\* another branch than the configured one.
NextPush ==
  \/ OnLoad
  \/ EditWorkTree
  \/ SyncNext(MaxCyclesBeside)

SpecPush == InitAnyBranch /\ [][NextPush]_vars

\* parseGitDiffNumstat alone, on every text of NumstatTexts: the plugin is
\* as constructed and stays so.
InitParse ==
  /\ rev = 3
  /\ data = DEFAULT_SETTINGS
  /\ localOK = TRUE
  /\ settings = DEFAULT_SETTINGS
  /\ plugin = "constructed"
  /\ workTree = RemoteTree
  /\ edits = 0
  /\ gitDirExists = FALSE
  /\ originURL = ""
  /\ commits = <<RemoteTree>>
  /\ head = 0
  /\ remoteHead = 1
  /\ index = EmptyTree
  /\ exclude = {}
  /\ commitEditMsg = FALSE
  /\ cycles = [i \in CycleIds |-> IdleCycle]
  /\ nStarted = 0
  /\ faults = 0
  /\ statusBarItem = FALSE
  /\ statusBarUpdateLock = FALSE
  /\ statInFlight = 0
  /\ enq = [inFlight |-> FALSE, did |-> "none"]
  /\ statRead = NoStats
  /\ shownStats = NoStats
  /\ LocalIdle
  /\ headRef = gitBranchName
  /\ numstatOut \in NumstatTexts \cup NumstatOutputs
  /\ numstatStats = NoStats

\* parseGitDiffNumstat(out) is called and returns.
ParseNumstat ==
  /\ numstatStats = NoStats
  /\ numstatStats' = parseGitDiffNumstat(numstatOut)
  /\ UNCHANGED <<numstatOut, branchVars, localVars, statusVars, configVars, workTree, edits, repoVars, cycles,
                 nStarted, faults, statusBarItem, refreshVars>>

NextParse == ParseNumstat

SpecParse == InitParse /\ [][NextParse]_vars

\* unlinkForce and the git directory alone: unlink settles in every way of
\* UnlinkSettlements; the platform, the environment, the vault name and the
\* gitDir of localStorage take every value of their sets.
InitLocal ==
  /\ rev = 3
  /\ data = DEFAULT_SETTINGS
  /\ settings = DEFAULT_SETTINGS
  /\ plugin = "constructed"
  /\ workTree = RemoteTree
  /\ edits = 0
  /\ gitDirExists = FALSE
  /\ originURL = ""
  /\ commits = <<RemoteTree>>
  /\ head = 0
  /\ remoteHead = 1
  /\ index = EmptyTree
  /\ exclude = {}
  /\ commitEditMsg = FALSE
  /\ cycles = [i \in CycleIds |-> IdleCycle]
  /\ nStarted = 0
  /\ faults = 0
  /\ statusBarItem = FALSE
  /\ statusBarUpdateLock = FALSE
  /\ statInFlight = 0
  /\ enq = [inFlight |-> FALSE, did |-> "none"]
  /\ statRead = NoStats
  /\ shownStats = NoStats
  /\ headRef = gitBranchName
  /\ numstatOut = <<>>
  /\ numstatStats = NoStats
  /\ unlinkSettled \in UnlinkSettlements
  /\ unlinkForceResult = "none"
  /\ platform \in Platforms
  /\ environ \in Environs
  /\ vaultName \in VaultNames
  /\ localGitDir \in GitDirSettings
  /\ settingsGitDir = <<>>
  /\ configuredGitDir = localGitDir
  /\ usedGitDir = NoDir
  /\ localOK = (localGitDir # <<>>)

LocalFrame ==
  UNCHANGED <<parseVars, branchVars, statusVars, rev, data, localOK, settings, workTree,
              edits, repoVars, cycles, nStarted, faults, statusBarItem,
              refreshVars>>

\* unlinkForce(path) is called and settles.
UnlinkForceCall ==
  /\ unlinkForceResult = "none"
  /\ unlinkForceResult' = unlinkForce(unlinkSettled)
  /\ UNCHANGED <<unlinkSettled, locatorVars, plugin>>
  /\ LocalFrame

\* loadSettings (rev 3), as to gitDir: when the getter throws, loadSettings
\* and onload reject and nothing is registered.
LoadGitDir ==
  /\ plugin = "constructed"
  /\ IF LoadedGitDir = Thrown
     THEN plugin' = "failed" /\ UNCHANGED settingsGitDir
     ELSE plugin' = "loaded" /\ settingsGitDir' = LoadedGitDir
  /\ UNCHANGED <<unlinkVars, platform, environ, vaultName, localGitDir,
                 configuredGitDir, usedGitDir>>
  /\ LocalFrame

\* The "Git Dir" field of the settings tab changes: this.settings.gitDir is
\* the value, and saveSettings stores it.
SetGitDir ==
  /\ plugin = "loaded"
  /\ usedGitDir = NoDir
  /\ \E value \in GitDirSettings :
       /\ value # configuredGitDir
       /\ settingsGitDir' = value
       /\ localGitDir' = value
       /\ configuredGitDir' = value
  /\ UNCHANGED <<unlinkVars, platform, environ, vaultName, usedGitDir, plugin>>
  /\ LocalFrame

\* gitSync reads gitDir from this.settings and asserts that it is set; the
\* cycle works with it from there on.
GitSyncGitDir ==
  /\ plugin = "loaded"
  /\ usedGitDir = NoDir
  /\ usedGitDir' = (IF settingsGitDir = <<>> THEN Thrown ELSE settingsGitDir)
  /\ UNCHANGED <<unlinkVars, platform, environ, vaultName, localGitDir,
                 settingsGitDir, configuredGitDir, plugin>>
  /\ LocalFrame

NextLocal ==
  \/ UnlinkForceCall
  \/ LoadGitDir
  \/ SetGitDir
  \/ GitSyncGitDir

SpecLocal == InitLocal /\ [][NextLocal]_vars

\* ------------------------------------------------------------------ claims

\* The cycle started right after cycle i, once cycle i had settled.
FollowsSettled(i, j) ==
  /\ j = i + 1
  /\ j \in CycleIds
  /\ cycles[i].pc = "done"
  /\ cycles[j].pc # "idle"
  /\ ~cycles[j].overlapped

Staging == {"reset", "rm", "add", "diff"}

\* C1: in the revision the claim cites (rev 3), when a cycle has run to
\* completion and the next cycle runs after it with no edit of the work tree
\* since the first started and no failure from outside, the second cycle
\* invokes no commit and no push, creates no commit and returns "No changes".
C1_SecondCycleNoChanges ==
  rev = 3 =>
    \A i, j \in CycleIds :
      ( /\ FollowsSettled(i, j)
        /\ cycles[i].result \in {"Pushed", "No changes"}
        /\ ~cycles[i].edited
        /\ ~cycles[j].fault )
      => /\ cycles[j].pc \notin {"commit", "revparse", "push"}
         /\ cycles[j].committed = 0
         /\ cycles[j].pc = "done" => cycles[j].result = "No changes"

\* C2: at no time are two gitSync cycles in flight.
C2_OneCycleInFlight ==
  Cardinality({i \in CycleIds : Running(cycles[i])}) <= 1

\* C3: when the git directory exists and its remote.origin.url differs from
\* the configured gitRemoteURL, no cycle has git fetch, git commit or git push
\* in flight, and a cycle that has settled has failed.
C3_MismatchFails ==
  (plugin # "constructed" /\ gitDirExists /\ originURL # gitRemoteURL) =>
    \A i \in CycleIds :
      /\ cycles[i].pc \notin {"fetch", "commit", "push"}
      /\ cycles[i].pc = "done" => cycles[i].result = "error"

\* C4: when gitRemoteURL is empty, a started cycle has failed with nothing
\* invoked: no cycle awaits an invocation, and every settled one has failed.
C4_EmptyURLFailsFast ==
  (plugin # "constructed" /\ gitRemoteURL = "") =>
    \A i \in CycleIds :
      /\ ~Running(cycles[i])
      /\ cycles[i].pc = "done" => cycles[i].result = "error"

\* C5: a cycle whose staged diff has filesChanged = 0 invokes no git commit
\* and no git push, creates no commit and, unless an invocation of it failed
\* from outside, returns "No changes".
C5_NoChangesShortCircuit ==
  \A i \in CycleIds :
    cycles[i].filesChanged = 0 =>
      /\ cycles[i].pc \notin {"commit", "revparse", "push"}
      /\ cycles[i].committed = 0
      /\ (cycles[i].pc = "done" /\ ~cycles[i].fault)
           => cycles[i].result = "No changes"

\* C6: when a cycle has created a commit and its push has failed, the next
\* cycle, if it settles without an error, has invoked git push (it returns
\* the message of a push, not "No changes").
C6_NextCycleRetriesPush ==
  \A i, j \in CycleIds :
    ( /\ FollowsSettled(i, j)
      /\ cycles[i].committed > 0
      /\ cycles[i].err = "push"
      /\ cycles[j].pc = "done"
      /\ cycles[j].result # "error" )
    => cycles[j].result \in {"Pushed", "undefined"}

\* C7: no gitStat invocation of a refresh is in flight while a cycle is in
\* its staging step (reset, index clear, add, staged diff).
C7_StatNeverBesideStaging ==
  ~(statInFlight > 0 /\ \E i \in CycleIds : cycles[i].pc \in Staging)

\* C8: an enqueueUpdateStatusBar request made while a refresh is in flight
\* returns without calling updateStatusBar, and at most one gitStat invocation
\* of a refresh is in flight.
C8_OneRefreshInFlight ==
  /\ enq.inFlight => enq.did = "skipped"
  /\ statInFlight <= 1

\* C9: a step of a status refresh (its gitStat invocation is started by a
\* request, or returns) leaves HEAD, the commits, the remote's branch, the
\* index, the exclude file, COMMIT_EDITMSG and the work tree unchanged, and
\* the return of gitStat moves no sync cycle: gitStat is all a refresh invokes.
C9_RefreshReadOnly ==
  [][ /\ (statInFlight' > statInFlight /\ cycles' = cycles)
         => UNCHANGED <<repoVars, workTree>>
      /\ statInFlight' < statInFlight
         => UNCHANGED <<repoVars, workTree, cycles>> ]_vars

\* A refresh has run gitStat on a repository whose work tree differs from
\* HEAD and has returned.
C9_Witness ==
  /\ enq.did = "gitStat"
  /\ statInFlight = 0
  /\ ~statusBarUpdateLock
  /\ gitDirExists
  /\ workTree # HeadTree
  /\ faults = 0

\* C10: no cycle ends with the failure of the removal of COMMIT_EDITMSG as
\* its error: the caller observes the outcome of the steps before the cleanup.
C10_CleanupErrorNotObserved ==
  \A i \in CycleIds :
    cycles[i].pc = "done" => cycles[i].err # "unlink"

\* The cycle has ended and gitCommitAll ran in it: it did not end at an
\* assert of gitSync or in gitFetch.
EndedAfterCommitAll(c) ==
  c.pc = "done" /\ c.err \notin {"assert", "fetch"}

\* C11: once a cycle that ran gitCommitAll with no other cycle beside it has
\* ended, a scratch file of it is left only when the attempt to remove that
\* very file failed: the COMMIT_EDITMSG of its commit only after its unlink
\* failed, rev 1's temporary index file only after its own unlink failed.
C11_ScratchFilesRemoved ==
  \A i \in CycleIds :
    (EndedAfterCommitAll(cycles[i]) /\ ~cycles[i].overlapped) =>
      /\ cycles[i].indexFile => cycles[i].err = "unlinkIndex"
      /\ (commitEditMsg /\ head = cycles[i].committed)
           => cycles[i].err = "unlink"

\* C12: a cycle in which git commit has succeeded ends, when it ends, with
\* the result of a push or with the failure of its push as its error, and
\* HEAD never moves back behind the commit the cycle created.
C12_CommitThenPush ==
  \A i \in CycleIds :
    cycles[i].committed > 0 =>
      /\ head >= cycles[i].committed
      /\ cycles[i].pc = "done" =>
           \/ cycles[i].result \in {"Pushed", "undefined"}
           \/ cycles[i].err = "push"

\* The invocations of gitSync, gitFetch and gitCommitAll in the order of the
\* awaits of revs 2 and 3, each with the one that may follow its successful
\* return.  unlink is the cleanup, exists the test of the git directory and
\* config the reading of remote.origin.url.
InvocationOrder ==
  { <<"exists", "config">>, <<"exists", "clone">>, <<"config", "fetch">>,
    <<"fetch", "writeExclude">>, <<"fetch", "reset">>,
    <<"clone", "writeExclude">>, <<"clone", "reset">>,
    <<"writeExclude", "reset">>, <<"reset", "rm">>, <<"reset", "add">>,
    <<"rm", "add">>, <<"add", "diff">>, <<"diff", "commit">>,
    <<"commit", "revparse">>, <<"unlink", "push">> }

ToolInvocations ==
  {"config", "fetch", "clone", "writeExclude", "reset", "rm", "add", "diff",
   "commit", "revparse", "push"}

\* C13: in the revisions that reset the index (revs 2 and 3), a cycle starts
\* an invocation only from the invocation before it in the order fetch or
\* clone, reset, add, staged diff, commit, rev-parse, push, and only when
\* that one has returned without an error; push starts only after the
\* cleanup that follows a successful rev-parse.
C13_FixedOrder ==
  [][ rev >= 2 =>
        \A i \in CycleIds :
          ( /\ cycles'[i].pc # cycles[i].pc
            /\ cycles'[i].pc \in ToolInvocations )
          => /\ <<cycles[i].pc, cycles'[i].pc>> \in InvocationOrder
             /\ cycles'[i].err = "none"
             /\ cycles'[i].fault = cycles[i].fault
             /\ cycles'[i].pc = "push" => cycles[i].outcome = "commit"
             /\ cycles'[i].pc = "revparse" => cycles'[i].committed > 0 ]_vars

\* A rev 3 cycle has gone through every invocation and has pushed.
C13_Witness ==
  /\ rev = 3
  /\ \E i \in CycleIds :
       /\ cycles[i].pc = "done"
       /\ cycles[i].result = "Pushed"
       /\ cycles[i].committed > 0
       /\ ~cycles[i].fault

\* C14: a cycle in which an invocation of gitFetch, gitCommitAll's try
\* block or gitPush has failed invokes nothing more but the cleanup, and ends
\* with the error of that invocation.
C14_FailureEndsCycle ==
  \A i \in CycleIds :
    LET c == cycles[i]
    IN  /\ (c.fault /\ c.err \notin {"unlink", "unlinkIndex"}) =>
             /\ c.pc \in {"unlink", "unlinkIndex", "done"}
             /\ c.pc = "done" =>
                  (c.result = "error" /\ c.err \in {"fetch", "exec", "push"})
        /\ c.outcome = "throw" => c.pc \in {"unlink", "unlinkIndex"}

C16_BadShaFails ==
  \A i \in CycleIds :
    (rev >= 2 /\ cycles[i].sha = "other") =>
      /\ cycles[i].outcome # "commit"
      /\ cycles[i].pc # "push"
      /\ cycles[i].pc = "done" => cycles[i].result = "error"

\* C17: for a text that is one line of a binary file ("-", "-" and a path
\* in three columns), parseGitDiffNumstat returns filesChanged 1,
\* insertions 0 and deletions 0.
C17_BinaryLineCountsZero ==
  (numstatStats # NoStats /\ numstatOut = <<"-", TAB, "-", TAB, "a">>) =>
    /\ numstatStats.filesChanged = 1
    /\ numstatStats.insertions = Num(0)
    /\ numstatStats.deletions = Num(0)

\* C18: for a text with no non-blank line (empty, or white space and line
\* feeds only), parseGitDiffNumstat returns filesChanged 0, insertions 0 and
\* deletions 0.
C18_BlankGivesZero ==
  ( /\ numstatStats # NoStats
    /\ \A k \in 1..Len(numstatOut) : numstatOut[k] \in WhiteSpace )
  => numstatStats = ZeroStats

\* parseGitDiffNumstat has returned for a text of blank lines.
C18_Witness ==
  /\ numstatOut = <<NL, SP, TAB, NL>>
  /\ numstatStats = ZeroStats

\* The diff from tree old to tree new is one rename line with 0 insertions
\* and 0 deletions.
RenameOnly(old, new) ==
  /\ RenamePairs(old, new) # {}
  /\ parseGitDiffNumstat(NumstatLines(FileOrder, old, new))
       = [filesChanged |-> 1, insertions |-> Num(0), deletions |-> Num(0)]

\* C19: when the staged diff of a cycle returns one rename line with 0
\* insertions and 0 deletions, the cycle has filesChanged = 1 and invokes git
\* commit; and a cycle that has committed such a diff and ended, with no
\* failure from outside, has pushed.
C19_RenameIsAChange ==
  /\ [][ \A i \in CycleIds :
           ( /\ cycles[i].pc = "diff"
             /\ cycles'[i].pc # "diff"
             /\ cycles'[i].fault = cycles[i].fault
             /\ RenameOnly(HeadTree, IndexOf(cycles[i])) )
           => /\ cycles'[i].filesChanged = 1
              /\ cycles'[i].pc = "commit" ]_vars
  /\ [](\A i \in CycleIds :
          ( /\ cycles[i].pc = "done"
            /\ cycles[i].committed > 1
            /\ ~cycles[i].fault
            /\ RenameOnly(commits[cycles[i].committed - 1],
                          commits[cycles[i].committed]) )
          => cycles[i].result \in {"Pushed", "undefined"})

\* A cycle of rev 3 has committed a diff of one rename line and has pushed.
C19_Witness ==
  /\ rev = 3
  /\ \E i \in CycleIds :
       /\ cycles[i].pc = "done"
       /\ cycles[i].result = "Pushed"
       /\ cycles[i].filesChanged = 1
       /\ cycles[i].committed > 1
       /\ RenameOnly(commits[cycles[i].committed - 1],
                     commits[cycles[i].committed])

\* C20: in the revisions whose gitSync returns a message (revs 2 and 3), a
\* cycle ends with "No changes", with "Pushed N files" or with an error, the
\* error being there exactly when neither message is; "Pushed N files" is
\* returned only by the successful return of the cycle's git push, after a
\* commit of the cycle, with N the filesChanged of its staged diff.
C20_ThreeOutcomes ==
  /\ [](rev >= 2 =>
          \A i \in CycleIds :
            cycles[i].pc = "done" =>
              /\ cycles[i].result \in {"No changes", "Pushed", "error"}
              /\ cycles[i].result = "error" <=> cycles[i].err # "none"
              /\ cycles[i].result = "Pushed" =>
                   /\ cycles[i].committed > 0
                   /\ cycles[i].filesChanged > 0
                   /\ cycles[i].n = cycles[i].filesChanged)
  /\ [][ rev >= 2 =>
           \A i \in CycleIds :
             (cycles'[i].result = "Pushed" /\ cycles[i].result # "Pushed")
             => /\ cycles[i].pc = "push"
                /\ cycles'[i].fault = cycles[i].fault
                /\ cycles[i].committed > 0 ]_vars

\* One cycle of rev 3 has returned "Pushed 1 files" and the next one
\* "No changes".
C20_Witness ==
  /\ rev = 3
  /\ \E i, j \in CycleIds :
       /\ cycles[i].pc = "done"
       /\ cycles[i].result = "Pushed"
       /\ cycles[i].n = 1
       /\ cycles[j].pc = "done"
       /\ cycles[j].result = "No changes"

\* ------------------------------------------------------- C21: environment

\* Variables of the host process environment (process.env).
ProcessEnv == {"PATH", "HOME", "SHELL"}

\* The env objects the functions build.  A variable's value is named by the
\* parameter it is taken from.
gitFetchEnv == [GIT_DIR |-> "gitDir"]

gitPushEnv == [GIT_DIR |-> "gitDir"]

gitStatEnv == [GIT_DIR |-> "gitDir", GIT_WORK_TREE |-> "gitWorkTree"]

\* Rev 1 also names its temporary index file.
gitCommitAllEnv ==
  IF rev = 1
  THEN [GIT_DIR |-> "gitDir", GIT_INDEX_FILE |-> "indexFile",
        GIT_WORK_TREE |-> "gitWorkTree",
        GIT_AUTHOR_NAME |-> "gitUserName", GIT_AUTHOR_EMAIL |-> "gitUserEmail",
        GIT_COMMITTER_NAME |-> "gitUserName",
        GIT_COMMITTER_EMAIL |-> "gitUserEmail"]
  ELSE [GIT_DIR |-> "gitDir", GIT_WORK_TREE |-> "gitWorkTree",
        GIT_AUTHOR_NAME |-> "gitUserName", GIT_AUTHOR_EMAIL |-> "gitUserEmail",
        GIT_COMMITTER_NAME |-> "gitUserName",
        GIT_COMMITTER_EMAIL |-> "gitUserEmail"]

\* execEnv as it would be if the child inherited the host environment under
\* the variables given.
execEnvInherited(file, env, args) ==
  [v \in DOMAIN env \cup ProcessEnv |->
     IF v \in DOMAIN env THEN env[v] ELSE "process.env"]

\* execEnv(file, env, args): execFile(file, args, { env }); the environment
\* of the child is env and nothing else.
execEnv(file, env, args) == env

\* The git invocations of a cycle, and the one of a refresh.
GitInvocations ==
  {"config", "fetch", "clone", "reset", "rm", "add", "diff", "commit",
   "revparse", "push"}

\* The environment of the child process of an invocation.
ChildEnv(cmd) ==
  IF cmd \in {"config", "fetch", "clone"}
  THEN execEnv("gitBinPath", gitFetchEnv, cmd)
  ELSE IF cmd = "push" THEN execEnv("gitBinPath", gitPushEnv, cmd)
  ELSE IF cmd = "stat" THEN execEnv("gitBinPath", gitStatEnv, cmd)
  ELSE execEnv("gitBinPath", gitCommitAllEnv, cmd)

TouchesWorkTree == {"reset", "add", "diff", "commit", "stat"}

\* What C21 asks of the environment e of invocation cmd.
EnvAsClaimed(cmd, e) ==
  /\ "GIT_DIR" \in DOMAIN e
  /\ DOMAIN e \cap ProcessEnv = {}
  /\ cmd \in TouchesWorkTree => "GIT_WORK_TREE" \in DOMAIN e
  /\ cmd = "commit" =>
       /\ {"GIT_AUTHOR_NAME", "GIT_AUTHOR_EMAIL", "GIT_COMMITTER_NAME",
           "GIT_COMMITTER_EMAIL"} \subseteq DOMAIN e
       /\ e.GIT_AUTHOR_NAME = e.GIT_COMMITTER_NAME
       /\ e.GIT_AUTHOR_EMAIL = e.GIT_COMMITTER_EMAIL

\* C21: in the revisions that have a status path (revs 2 and 3), every git
\* invocation in flight, of a cycle or of a refresh, runs with an environment
\* that holds GIT_DIR and no variable of the host process; reset, add, diff,
\* commit and the status diff also hold GIT_WORK_TREE; commit also holds the
\* author and committer names and e-mails, author equal to committer.
C21_ExplicitEnv ==
  rev >= 2 =>
    /\ \A i \in CycleIds :
         cycles[i].pc \in GitInvocations
           => EnvAsClaimed(cycles[i].pc, ChildEnv(cycles[i].pc))
    /\ statInFlight > 0 => EnvAsClaimed("stat", ChildEnv("stat"))

\* A cycle of rev 3 has its git commit in flight while the gitStat of a
\* refresh is in flight.
C21_Witness ==
  /\ rev = 3
  /\ statInFlight > 0
  /\ \E i \in CycleIds : cycles[i].pc = "commit"

\* The operations of a cycle that write to the repository, fetch aside.
WritingInvocations ==
  {"writeExclude", "reset", "rm", "add", "commit", "push"}

\* Cycle c runs, or ran, alone on an existing repository whose HEAD is the
\* remote's branch and whose work tree is HEAD's tree, with no edit and no
\* failure from outside.
CleanCycle(c) ==
  /\ c.pc # "idle"
  /\ c.headAtStart > 0
  /\ head = c.headAtStart
  /\ remoteHead = head
  /\ originURL = gitRemoteURL
  /\ gitRemoteURL # ""
  /\ workTree = HeadTree
  /\ ~c.edited
  /\ ~c.overlapped
  /\ ~c.fault

\* C22: in the revisions the claim cites (revs 2 and 3), a cycle on an
\* existing repository whose HEAD matches the remote and whose work tree is
\* unchanged since the last commit invokes no exclude-file write, no index
\* reset, no index clear, no add, no commit and no push, and returns
\* "No changes".
C22_CleanCycleWritesNothing ==
  rev >= 2 =>
    \A i \in CycleIds :
      CleanCycle(cycles[i]) =>
        /\ cycles[i].pc \notin WritingInvocations
        /\ cycles[i].pc = "done" => cycles[i].result = "No changes"

\* The index gitCommitAll stages from HEAD and the work tree as they are:
\* rev 3 writes the exclude file, resets, clears the index and adds; rev 2
\* resets and adds; rev 1 adds to a new temporary index.
StagedBySync ==
  IF rev = 3 THEN GitAdd(EmptyTree, workTree, gitIgnore)
  ELSE IF rev = 2 THEN GitAdd(HeadTree, workTree, exclude)
  ELSE GitAdd(EmptyTree, workTree, exclude)

\* The stats gitCommitAll computes from HEAD and the work tree as they are.
SyncStats == parseGitDiffNumstat(GitDiffStaged(HeadTree, StagedBySync))

\* C23: when the gitStat of a refresh reads the repository, the filesChanged
\* it computes, which the status bar then shows, is the filesChanged a sync
\* cycle would compute from the same work tree and HEAD; so a refresh that
\* shows "No changes" goes with a cycle that returns "No changes".
C23_RefreshEqualsSync ==
  [][ (rev >= 2 /\ head > 0 /\ statRead = NoStats /\ statRead' # NoStats)
        => statRead'.filesChanged = SyncStats.filesChanged ]_vars

\* C24: unlinkForce returns when unlink resolves or rejects with ENOENT, and
\* throws for every other rejection, whether the value rejected with is an
\* Error or not and whether it has a code field or not.
C24_UnlinkForceRethrows ==
  unlinkForceResult # "none" =>
    unlinkForceResult =
      (IF unlinkSettled.rejected /\ unlinkSettled.code # "ENOENT"
       THEN "throw" ELSE "return")

\* The platform cache directory as the comment of getCacheDir gives it.
PlatformCacheDir ==
  IF platform = "darwin"
  THEN environ.HOME \o <<"Library", "Caches", "obsidian-git-backup">>
  ELSE IF platform = "linux"
  THEN (IF environ.XDG_CACHE_HOME # <<>> THEN environ.XDG_CACHE_HOME
        ELSE environ.HOME \o <<".cache">>) \o <<"obsidian-git-backup">>
  ELSE environ.LOCALAPPDATA \o <<"obsidian-git-backup", "Cache">>

C26_CloneOrFetch ==
  [][ \A i \in CycleIds :
        LET c == cycles[i]
            d == cycles'[i]
        IN  /\ (c.pc = "exists" /\ d.pc # "exists")
                 => d.pc \in {"clone", "config"}
            /\ (d.pc = "clone" /\ c.pc # "clone")
                 => (c.pc = "exists" /\ d.headAtStart = 0)
            /\ (d.pc = "config" /\ c.pc # "config")
                 => (c.pc = "exists" /\ d.headAtStart > 0)
            /\ (d.pc = "fetch" /\ c.pc # "fetch")
                 => (c.pc = "config" /\ d.headAtStart > 0)
            /\ (c.pc = "clone" /\ d.pc # "clone" /\ ~gitDirExists /\ gitDirExists')
                 => d.pc \in {"writeExclude", "reset", "add"} ]_vars

\* The stats of the lines ls: the lines that are not blank, the sum of their
\* first columns and the sum of their second columns.
RECURSIVE StatsOfLines(_)
StatsOfLines(ls) ==
  IF ls = <<>> THEN ZeroStats
  ELSE LET l == Head(ls)
           r == StatsOfLines(Tail(ls))
       IN  IF l.blank THEN r
           ELSE [filesChanged |-> r.filesChanged + 1,
                 insertions   |-> Num(r.insertions.v + l.ins),
                 deletions    |-> Num(r.deletions.v + l.del)]

\* Every output of NumstatOutputs with the stats of its lines.
NumstatCases ==
  {<<RenderLines(ls, nl), StatsOfLines(ls)>> :
     ls \in NumstatLineSeqs, nl \in BOOLEAN}

\* C27: for a text made of lines "<insertions> TAB <deletions> TAB <path>"
\* with numeric counts, with blank lines among them or not, with a line feed
\* at its end or not, the path holding a space or not, parseGitDiffNumstat
\* returns the number of non-blank lines as filesChanged, the sum of the
\* first columns as insertions and the sum of the second as deletions.
C27_NumstatTotals ==
  (numstatStats # NoStats /\ numstatOut \in NumstatOutputs) =>
    \A p \in NumstatCases : p[1] = numstatOut => numstatStats = p[2]

\* parseGitDiffNumstat has returned for an output of two lines of files, one
\* with a space in its path, a blank line between them and a line feed at
\* the end.
C27_Witness ==
  /\ numstatOut =
       RenderLines(<<[blank |-> FALSE, ins |-> 12, del |-> 0, path |-> <<"a", SP, "b">>],
                     [blank |-> TRUE, ins |-> 0, del |-> 0, path |-> <<>>],
                     [blank |-> FALSE, ins |-> 1, del |-> 7, path |-> <<"a">>]>>, TRUE)
  /\ numstatStats = [filesChanged |-> 2, insertions |-> Num(13), deletions |-> Num(7)]

\* C28: in the revision the claim cites (rev 3), once a cycle has returned
\* "Pushed N files", the commit it created is in the remote's branch
\* gitBranchName, whichever branch HEAD of the git directory points to.
C28_PushedCommitOnRemote ==
  rev = 3 =>
    \A i \in CycleIds :
      (cycles[i].pc = "done" /\ cycles[i].result = "Pushed")
        => remoteHead >= cycles[i].committed

\* C29: in the revision that keeps local settings (rev 3), the step in which
\* onload runs loadSettings leaves data.json as it was, and this.settings
\* carries after it the synced values data.json held before it.
C29_LoadKeepsData ==
  [][ (rev = 3 /\ plugin = "constructed" /\ plugin' = "loaded") =>
        /\ data' = data
        /\ settings'.gitRemoteURL = data.gitRemoteURL
        /\ settings'.gitIgnore = data.gitIgnore ]_vars

\* C30: in the revisions with a status bar (revs 2 and 3), while the plugin
\* is loaded, the step in which a cycle started by the Backup command
\* settles leaves a refresh in flight whose gitStat has not read the
\* repository yet, so that it reads the state the cycle left.
C30_RefreshAfterCycle ==
  [][ \A i \in CycleIds :
        ( /\ rev >= 2
          /\ plugin = "loaded"
          /\ statusBarItem
          /\ cycles[i].pc # "done"
          /\ cycles'[i].pc = "done"
          /\ cycles'[i].origin = "command" )
        => (statInFlight' > 0 /\ statRead' = NoStats) ]_vars

\* C31: statusBarUpdateLock is true exactly while a refresh started by
\* enqueueUpdateStatusBar is in flight (its gitStat invocation has not
\* returned), after unload too.
C31_LockIffRefreshInFlight ==
  statusBarUpdateLock <=> (statInFlight > 0)

\* ---------------------------------------------------------------- progress

\* The return of whichever invocation (git, file system) cycle i awaits.
InvocationReturns(i) ==
  \/ ExistsReturn(i)
  \/ ConfigReturn(i)
  \/ FetchReturn(i)
  \/ CloneReturn(i)
  \/ WriteExcludeReturn(i)
  \/ ResetReturn(i)
  \/ RmCachedReturn(i)
  \/ AddReturn(i)
  \/ DiffReturn(i)
  \/ CommitReturn(i)
  \/ RevParseReturn(i)
  \/ UnlinkReturn(i)
  \/ UnlinkIndexReturn(i)
  \/ PushReturn(i)

\* The invocations a running cycle can be awaiting: one return action each.
AwaitedInvocations ==
  {"exists", "config", "fetch", "clone", "writeExclude", "reset", "rm", "add",
   "diff", "commit", "revparse", "unlink", "unlinkIndex", "push"}

\* The git process of the gitStat in flight can run: GitStatRun is enabled.
GitStatCanRun == statInFlight > 0 /\ statRead = NoStats /\ gitDirExists

\* Cycle i awaits an invocation: InvocationReturns(i) is enabled, for every
\* invocation has an outcome (Res is never empty).
Awaiting(i) == cycles[i].pc \in AwaitedInvocations

\* Every git invocation and every file operation eventually returns: the
\* child process of a gitStat in flight runs and exits, and the invocation a
\* cycle awaits returns.  This is weak fairness of GitStatRun, of
\* GitStatReturn and of each InvocationReturns(i); for the first and the
\* last, ENABLED <<A>>_vars is written out as the guard of A.  The callers
\* (commands, timers, vault events, unload) owe nothing.
EveryInvocationReturns ==
  /\ []<>(~GitStatCanRun) \/ []<><<GitStatRun>>_vars
  /\ WF_vars(GitStatReturn)
  /\ \A i \in CycleIds :
       []<>(~Awaiting(i)) \/ []<><<InvocationReturns(i)>>_vars

\* The whole plugin, with invocations that eventually return.
SpecLive == Init /\ [][Next]_vars /\ EveryInvocationReturns

\* C32: when every invocation eventually returns, every started cycle
\* eventually settles (with a result or an error): a running cycle never
\* goes back to idle and no cycle runs forever; and every started refresh
\* eventually settles with statusBarUpdateLock released, so the lock is
\* never held forever: again and again no refresh is in flight and the lock
\* is free.
C32_EverythingSettles ==
  /\ [][\A i \in CycleIds :
          Running(cycles[i]) => cycles'[i].pc # "idle"]_vars
  /\ \A i \in CycleIds : []<>(~Running(cycles[i]))
  /\ []<>(statInFlight = 0 /\ ~statusBarUpdateLock)

\* A cycle that committed has settled with its push, and the refresh that
\* was in flight has settled with the lock released.
C32_Witness ==
  /\ \E i \in CycleIds :
       /\ cycles[i].pc = "done"
       /\ cycles[i].result \in {"Pushed", "undefined"}
       /\ cycles[i].committed > 0
  /\ enq.did = "gitStat"
  /\ shownStats # NoStats
  /\ statInFlight = 0
  /\ ~statusBarUpdateLock

====
